---- MODULE Spec2Model ----
(***************************************************************************)
(* The vector store of the query-retrieval service (services/vector_store  *)
(* .py), the two VectorStore objects the process builds (api/endpoints.py  *)
(* and services/query_engine.py), the request handlers that drive them,    *)
(* the two files of the persisted index image and the chunk table.         *)
(*                                                                         *)
(* Vectors are integer tuples in fixed point: Unit stands for 1.0, a score *)
(* (an inner product of two normalised vectors) is in units of Unit*Unit.  *)
(* One step of the model is the code a request runs between two awaits.    *)
(***************************************************************************)
EXTENDS Integers, Sequences, FiniteSets, TLC

VARIABLES
    index,          \* VectorStore.index of each VectorStore object
    chunk_ids,      \* VectorStore.chunk_ids of each VectorStore object
    index_file,     \* vector_index/faiss_index.bin
    metadata_file,  \* vector_index/chunk_metadata.pkl
    db_documents,   \* committed rows of table documents (their ids)
    db_chunks,      \* committed rows of table document_chunks (their ids)
    upload,         \* the POST /upload request of each document
    delete,         \* the DELETE /documents/{id} request of each document
    query,          \* the POST /query request
    running,        \* the process is up
    restarts,       \* how many times the process was started again
    chunker         \* one call of each of the two chunkers on one text

vars == <<index, chunk_ids, index_file, metadata_file, db_documents, db_chunks,
          upload, delete, query, running, restarts, chunker>>

----------------------------------------------------------------------------
(* Bounds of the model. *)

MaxChunks == 2
MaxRestarts == 1
MaxK == 2

Docs == {"D1", "D2"}
ChunkNumbers == 1..MaxChunks
ChunkIds == Docs \X ChunkNumbers

(* DocumentChunk.document_id of the row with id c. *)
document_id(c) == c[1]

----------------------------------------------------------------------------
(* The VectorStore objects of the process. *)

EndpointsStore == "endpoints.vector_store"
QueryEngineStore == "query_engine.vector_store"
Stores == {EndpointsStore, QueryEngineStore}

(* The store upload_document and delete_document call. *)
UploadStore == EndpointsStore
(* The store QueryEngine.process_query searches. *)
QueryStore == QueryEngineStore

dimension == 2
Unit == 5

----------------------------------------------------------------------------
(* Sequences. *)

Range(s) == {s[i] : i \in DOMAIN s}

RECURSIVE SeqOfSet(_)
SeqOfSet(S) ==
    IF S = {} THEN <<>>
    ELSE LET m == CHOOSE x \in S : \A y \in S : x <= y
         IN <<m>> \o SeqOfSet(S \ {m})

(* The elements of s at the positions of P, in their order in s. *)
AtPositions(s, P) ==
    LET ps == SeqOfSet(P \cap DOMAIN s)
    IN [i \in DOMAIN ps |-> s[ps[i]]]

(* The chunk ids of each document lie in one block, in the order of the
   batch. *)
Contiguous(ids) ==
    \A i, j \in DOMAIN ids :
        (i < j /\ document_id(ids[i]) = document_id(ids[j]))
        => /\ ids[j][2] = ids[i][2] + (j - i)
           /\ \A m \in i..j : document_id(ids[m]) = document_id(ids[i])

----------------------------------------------------------------------------
(* Embeddings and numpy. *)

RECURSIVE SumSquares(_)
SumSquares(e) ==
    IF e = <<>> THEN 0 ELSE Head(e) * Head(e) + SumSquares(Tail(e))

(* np.linalg.norm, exact on the embeddings of the model. *)
Norm(e) == CHOOSE n \in 0..SumSquares(e) : n * n = SumSquares(e)

(* embedding_array / np.linalg.norm(embedding_array): numpy divides 0.0 by 0.0
   to nan and raises nothing. *)
Normalize(e) ==
    IF Norm(e) = 0
    THEN [nan |-> TRUE, v |-> [i \in DOMAIN e |-> 0]]
    ELSE [nan |-> FALSE, v |-> [i \in DOMAIN e |-> (e[i] * Unit) \div Norm(e)]]

(* What genai.embed_content returns for the content of chunk c. *)
ChunkEmbedding(c) ==
    IF c[2] = 1 THEN (IF c[1] = "D1" THEN <<1, 0>> ELSE <<0, 2>>)
    ELSE IF c[2] = 2 THEN (IF c[1] = "D1" THEN <<3, 4>> ELSE <<4, 3>>)
    ELSE <<0, 1>>

(* What genai.embed_content returns for a query text. *)
QueryTexts == {<<1, 0>>, <<3, 4>>}

(* The outcomes of one embedding call: the service answers, the service answers
   with a vector of another length, the call raises. *)
EmbedOutcomes == {"ok", "other_length", "raises"}

(* The outcomes of the embedding calls of the uploads. *)
ChunkEmbedOutcomes == {"ok", "other_length"}

(* GeminiService.get_embedding: the answer, or 768 zeros when the call raised. *)
get_embedding(answer, outcome) ==
    IF outcome = "raises" THEN [i \in 1..dimension |-> 0]
    ELSE IF outcome = "other_length" THEN <<1>>
    ELSE answer

----------------------------------------------------------------------------
(* faiss.IndexFlatIP. *)

IndexFlatIP(d) == [d |-> d, xb |-> <<>>]

ntotal(ix) == Len(ix.xb)

(* np.array(vectors) followed by index.add raises unless every row has the
   index's dimension. *)
AddRaises(ix, vectors) == \E i \in DOMAIN vectors : Len(vectors[i].v) # ix.d

(* The rows put before the rows the index holds. *)
IndexAddInFront(ix, vectors) == [ix EXCEPT !.xb = vectors \o @]

(* index.add(vectors_array): the rows are appended in their order. *)
IndexAdd(ix, vectors) == [ix EXCEPT !.xb = @ \o vectors]

RECURSIVE Dot(_, _)
Dot(a, b) ==
    IF a = <<>> THEN 0 ELSE Head(a) * Head(b) + Dot(Tail(a), Tail(b))

(* The inner product of the query with row i; nan when either is nan. *)
Score(ix, q, i) == Dot(q.v, ix.xb[i].v)
ScoreIsNan(ix, q, i) == q.nan \/ ix.xb[i].nan

(* The first row of S by position, whatever its score. *)
BestRowByPosition(ix, q, S) == CHOOSE i \in S : \A j \in S : i <= j

(* The row faiss ranks first among the rows of S: the highest inner product,
   the lower position among equals. *)
BestRow(ix, q, S) ==
    CHOOSE i \in S : \A j \in S :
        \/ Score(ix, q, i) > Score(ix, q, j)
        \/ Score(ix, q, i) = Score(ix, q, j) /\ i <= j

RECURSIVE TopRows(_, _, _, _)
TopRows(ix, q, S, n) ==
    IF n = 0 \/ S = {} THEN <<>>
    ELSE LET b == BestRow(ix, q, S)
         IN <<b>> \o TopRows(ix, q, S \ {b}, n - 1)

(* index.search(query, n): the positions of the n best rows, best first. A nan
   score never compares greater than the heap's threshold, so such a row is
   never a candidate; the missing candidates are the -1 entries the caller
   skips. *)
IndexSearch(ix, q, n) ==
    TopRows(ix, q, {i \in 1..ntotal(ix) : ~ScoreIsNan(ix, q, i)}, n)

SearchRaises(ix, q) == Len(q.v) # ix.d

----------------------------------------------------------------------------
(* VectorStore: the persisted image. *)

(* faiss.write_index of an IndexFlat: the header (d, ntotal) and the vectors as
   one flat run of numbers, row after row. A component of a nan row is written
   as nan; the model keeps which rows are nan beside the numbers. *)
RECURSIVE Flatten(_)
Flatten(rows) ==
    IF rows = <<>> THEN <<>> ELSE Head(rows).v \o Flatten(Tail(rows))

write_index(ix) ==
    [d |-> ix.d, ntotal |-> ntotal(ix), codes |-> Flatten(ix.xb),
     nans |-> [i \in DOMAIN ix.xb |-> ix.xb[i].nan]]

(* The flat run cut into rows of ntotal numbers each. *)
read_index_rows_of_ntotal(data) ==
    [d |-> data.d,
     xb |-> [i \in 1..data.ntotal |->
                [nan |-> data.nans[i],
                 v |-> SubSeq(data.codes, (i - 1) * data.ntotal + 1,
                              i * data.ntotal)]]]

(* faiss.read_index: ntotal rows of d numbers each, cut from the flat run. *)
read_index(data) ==
    [d |-> data.d,
     xb |-> [i \in 1..data.ntotal |->
                [nan |-> data.nans[i],
                 v |-> SubSeq(data.codes, (i - 1) * data.d + 1, i * data.d)]]]

(* pickle.dump and pickle.load of the list of chunk ids. *)
pickle_dump(ids) == [length |-> Len(ids), items |-> ids]
pickle_load(data) == [i \in 1..data.length |-> data.items[i]]

NoIndexFile == [exists |-> FALSE, data |-> write_index(IndexFlatIP(dimension))]
NoMetadataFile == [exists |-> FALSE, data |-> pickle_dump(<<>>)]

(* The two files as one image. *)
Image(ifile, mfile) == [index_file |-> ifile, metadata_file |-> mfile]
ImageOf(ix, ids) ==
    Image([exists |-> TRUE, data |-> write_index(ix)],
          [exists |-> TRUE, data |-> pickle_dump(ids)])

(* _load_or_create_index: both files are read when both exist, and nothing is
   compared; otherwise a new empty index. *)
LoadOrCreateIndex(ifile, mfile) ==
    IF ifile.exists /\ mfile.exists
    THEN [index |-> read_index(ifile.data), chunk_ids |-> pickle_load(mfile.data)]
    ELSE [index |-> IndexFlatIP(dimension), chunk_ids |-> <<>>]

(* The outcomes of one _save_index call: both files written; faiss.write_index
   raises; the metadata file cannot be opened after the index file was written;
   the process is killed between the two writes. *)
SaveOutcomes == {"saved", "write_index_raises", "open_metadata_raises", "killed"}

(* _save_index: the index file is written first, the id list second; an
   exception is logged and not raised again. *)
SaveIndex(ix, ids, ifile, mfile, outcome) ==
    [index_file    |-> IF outcome = "write_index_raises" THEN ifile
                       ELSE [exists |-> TRUE, data |-> write_index(ix)],
     metadata_file |-> IF outcome = "saved"
                       THEN [exists |-> TRUE, data |-> pickle_dump(ids)] ELSE mfile,
     logged_error  |-> outcome \in {"write_index_raises", "open_metadata_raises"},
     killed        |-> outcome = "killed"]

----------------------------------------------------------------------------
(* VectorStore.search_similar_chunks. *)

NoFilter == [given |-> FALSE, ids |-> {}]
Filter(D) == [given |-> TRUE, ids |-> D]

(* `document_ids is not None and chunk.document_id not in document_ids`: the
   empty list excludes every chunk. *)
ExcludedByGivenFilter(document_ids, c) ==
    document_ids.given /\ document_id(c) \notin document_ids.ids

(* `document_ids and chunk.document_id not in document_ids`: None and the empty
   list are both false. *)
ExcludedByFilter(document_ids, c) ==
    document_ids.given /\ document_ids.ids # {} /\ document_id(c) \notin document_ids.ids

(* `if score < similarity_threshold: continue`, and the same test with <= and
   with >. *)
AtOrBelowThreshold(score, threshold) == score <= threshold
AboveThreshold(score, threshold) == score > threshold
BelowThreshold(score, threshold) == score < threshold

(* `chunk = db.query(DocumentChunk).filter(DocumentChunk.id == chunk_id)
   .first()` finds a row. *)
Resolves(c, db) == c \in db

(* `if len(results) >= k: break`, and the same test with >. *)
MoreThanK(results, k) == Len(results) > k
ReachedK(results, k) == Len(results) >= k

(* `k * 2`, the number of candidates asked of index.search, and k * 3. *)
OversampleByThree(k) == k * 3
Oversample(k) == k * 2

(* The loop over the candidates, with the results collected so far. *)
RECURSIVE CollectResults(_, _, _, _, _, _)
CollectResults(st, req, q, db, candidates, results) ==
    IF candidates = <<>> \/ ReachedK(results, req.k)
    THEN [raised |-> FALSE, results |-> results]
    ELSE LET idx == Head(candidates)
             score == Score(st.index, q, idx)
             rest == Tail(candidates)
         IN IF BelowThreshold(score, req.similarity_threshold)
            THEN CollectResults(st, req, q, db, rest, results)
            ELSE IF idx > Len(st.chunk_ids)
            THEN [raised |-> TRUE, results |-> results]
            ELSE IF ~Resolves(st.chunk_ids[idx], db)
            THEN CollectResults(st, req, q, db, rest, results)
            ELSE IF ExcludedByFilter(req.document_ids, st.chunk_ids[idx])
            THEN CollectResults(st, req, q, db, rest, results)
            ELSE CollectResults(st, req, q, db, rest,
                     Append(results, [chunk |-> st.chunk_ids[idx], score |-> score]))

(* search_similar_chunks after the embedding call: st is the store's index and
   chunk_ids, q the normalised query. Every exception ends in `return []`. *)
SearchSimilarChunks(st, req, q, db) ==
    IF SearchRaises(st.index, q) THEN <<>>
    ELSE LET r == CollectResults(st, req, q, db,
                      IndexSearch(st.index, q, Oversample(req.k)), <<>>)
         IN IF r.raised THEN <<>> ELSE r.results

----------------------------------------------------------------------------
(* VectorStore.add_document_chunks, from `if vectors:` on. *)

(* The batch added row by row: the rows before the first one of another length
   are in the index when the call raises. *)
AddBatchRowByRow(st, vectors, ids) ==
    LET bad == {i \in DOMAIN vectors : Len(vectors[i].v) # st.index.d}
        first == CHOOSE i \in bad : \A j \in bad : i <= j
    IN IF bad = {}
       THEN [index |-> IndexAdd(st.index, vectors),
             chunk_ids |-> st.chunk_ids \o ids, raised |-> FALSE]
       ELSE [index |-> IndexAdd(st.index, SubSeq(vectors, 1, first - 1)),
             chunk_ids |-> st.chunk_ids \o SubSeq(ids, 1, first - 1),
             raised |-> TRUE]

(* `vectors_array = np.array(vectors)`, `self.index.add(vectors_array)`,
   `self.chunk_ids.extend(chunk_ids)`: the index and chunk_ids after the three
   statements; raised when np.array or index.add raises, and then neither has
   changed. *)
AddBatch(st, vectors, ids) ==
    IF AddRaises(st.index, vectors)
    THEN [index |-> st.index, chunk_ids |-> st.chunk_ids, raised |-> TRUE]
    ELSE [index |-> IndexAdd(st.index, vectors),
          chunk_ids |-> st.chunk_ids \o ids, raised |-> FALSE]

----------------------------------------------------------------------------
(* VectorStore.remove_document_chunks. *)

ChunkIdsToRemove(d, db) == {c \in db : document_id(c) = d}

IndicesToRemove(ids, d, db) ==
    {i \in DOMAIN ids : ids[i] \in ChunkIdsToRemove(d, db)}

(* The outcomes of the rebuild: it runs through, or np.array / index.add of the
   kept vectors raises after self.index was replaced. *)
RebuildOutcomes == {"ok", "add_raises"}

(* The index and chunk_ids after the call; raised when the call raises; saves
   when it reaches _save_index. *)
RemoveDocumentChunks(st, d, db, outcome) ==
    LET gone == IndicesToRemove(st.chunk_ids, d, db)
        kept == DOMAIN st.chunk_ids \ gone
        all_vectors == AtPositions(st.index.xb, kept)
        remaining_chunk_ids == AtPositions(st.chunk_ids, kept)
        fresh == IndexFlatIP(dimension)
        unchanged == [index |-> st.index, chunk_ids |-> st.chunk_ids,
                      raised |-> FALSE, saves |-> FALSE]
    IN IF gone = {} THEN unchanged
       ELSE IF \E i \in kept : i > ntotal(st.index)
       THEN [unchanged EXCEPT !.raised = TRUE]
       ELSE IF all_vectors # <<>>
               /\ (outcome = "add_raises" \/ AddRaises(fresh, all_vectors))
       THEN [index |-> fresh, chunk_ids |-> st.chunk_ids,
             raised |-> TRUE, saves |-> FALSE]
       ELSE [index |-> IndexAdd(fresh, all_vectors),
             chunk_ids |-> remaining_chunk_ids,
             raised |-> FALSE, saves |-> TRUE]

----------------------------------------------------------------------------
(* Text: a str is the sequence of its characters. *)

MaxLen == 5

Characters == {"a", "b", " ", ".", "!"}
Texts == UNION {[1..n -> Characters] : n \in 0..MaxLen}

(* The characters of the class [.!?] of chunk_text_by_sentences. *)
SentenceEnd == {".", "!", "?"}

(* str.strip(). *)
RECURSIVE lstrip(_)
lstrip(s) == IF s # <<>> /\ Head(s) = " " THEN lstrip(Tail(s)) ELSE s
RECURSIVE rstrip(_)
rstrip(s) ==
    IF s # <<>> /\ s[Len(s)] = " " THEN rstrip(SubSeq(s, 1, Len(s) - 1)) ELSE s
strip(s) == rstrip(lstrip(s))

(* The pieces of s between the characters of seps, the piece in hand first;
   with runs, a run of such characters separates once. *)
RECURSIVE Pieces(_, _, _, _)
Pieces(s, seps, runs, piece) ==
    IF s = <<>> THEN <<piece>>
    ELSE IF Head(s) \in seps
    THEN IF runs /\ Tail(s) # <<>> /\ Head(Tail(s)) \in seps
         THEN Pieces(Tail(s), seps, runs, piece)
         ELSE <<piece>> \o Pieces(Tail(s), seps, runs, <<>>)
    ELSE Pieces(Tail(s), seps, runs, Append(piece, Head(s)))

(* re.split(r'[.!?]+', text), text.split('.') and s.split(). *)
re_split(text) == Pieces(text, SentenceEnd, TRUE, <<>>)
split_dot(text) == Pieces(text, {"."}, FALSE, <<>>)
split(s) == SelectSeq(Pieces(s, {" "}, TRUE, <<>>), LAMBDA w : w # <<>>)

(* " ".join(words). *)
RECURSIVE join(_)
join(words) ==
    IF words = <<>> THEN <<>>
    ELSE IF Len(words) = 1 THEN Head(words)
    ELSE Head(words) \o <<" ">> \o join(Tail(words))

(* words[-n:]: the last n words, and every word when n is 0, as -0 is 0. *)
LastWords(words, n) ==
    IF n = 0 \/ n >= Len(words) THEN words
    ELSE SubSeq(words, Len(words) - n + 1, Len(words))

----------------------------------------------------------------------------
(* utils/helpers.py: chunk_text_by_sentences. *)

(* `sentences = [s.strip() for s in sentences if s.strip()]`. *)
Sentences(text) ==
    LET pieces == re_split(text)
    IN SelectSeq([i \in DOMAIN pieces |-> strip(pieces[i])], LAMBDA s : s # <<>>)

(* One pass of the loop that cuts a sentence to max_chunk_size characters. *)
AddSentenceTruncating(current_chunk, sentence, max_chunk_size, overlap) ==
    LET cut == IF Len(sentence) > max_chunk_size
               THEN SubSeq(sentence, 1, max_chunk_size) ELSE sentence
    IN IF Len(current_chunk) + Len(sentence) + 1 > max_chunk_size
       THEN IF current_chunk # <<>>
            THEN [flushed |-> <<strip(current_chunk)>>,
                  current_chunk |->
                      IF Len(split(current_chunk)) > overlap \div 10
                      THEN join(LastWords(split(current_chunk), overlap \div 10))
                               \o <<" ">> \o cut
                      ELSE cut]
            ELSE [flushed |-> <<>>, current_chunk |-> cut]
       ELSE [flushed |-> <<>>,
             current_chunk |-> IF current_chunk # <<>>
                               THEN current_chunk \o <<" ">> \o sentence
                               ELSE sentence]

(* One pass of the loop `for sentence in sentences`: the chunk it appends to
   chunks, if any, and current_chunk after it. *)
AddSentence(current_chunk, sentence, max_chunk_size, overlap) ==
    IF Len(current_chunk) + Len(sentence) + 1 > max_chunk_size
    THEN IF current_chunk # <<>>
         THEN LET words == split(current_chunk)
              IN [flushed |-> <<strip(current_chunk)>>,
                  current_chunk |->
                      IF Len(words) > overlap \div 10
                      THEN join(LastWords(words, overlap \div 10))
                               \o <<" ">> \o sentence
                      ELSE sentence]
         ELSE [flushed |-> <<>>, current_chunk |-> sentence]
    ELSE [flushed |-> <<>>,
          current_chunk |-> IF current_chunk # <<>>
                            THEN current_chunk \o <<" ">> \o sentence
                            ELSE sentence]

(* The end of the function with the last buffer left out. *)
DropLastChunk(chunks, current_chunk) == chunks

(* `if current_chunk: chunks.append(current_chunk.strip())`. *)
AppendLastChunk(chunks, current_chunk) ==
    IF current_chunk # <<>> THEN Append(chunks, strip(current_chunk)) ELSE chunks

----------------------------------------------------------------------------
(* services/document_processor.py: DocumentProcessor._create_chunks. *)

RECURSIVE CreateChunksLoop(_, _, _, _)
CreateChunksLoop(sentences, current_chunk, chunks, CHUNK_SIZE) ==
    IF sentences = <<>>
    THEN IF current_chunk # <<>> THEN Append(chunks, strip(current_chunk)) ELSE chunks
    ELSE LET sentence == strip(Head(sentences))
             rest == Tail(sentences)
         IN IF sentence = <<>>
            THEN CreateChunksLoop(rest, current_chunk, chunks, CHUNK_SIZE)
            ELSE IF Len(current_chunk) + Len(sentence) + 1 > CHUNK_SIZE
            THEN CreateChunksLoop(rest, sentence \o <<".">>,
                     IF current_chunk # <<>>
                     THEN Append(chunks, strip(current_chunk)) ELSE chunks,
                     CHUNK_SIZE)
            ELSE CreateChunksLoop(rest, current_chunk \o sentence \o <<".">>,
                                  chunks, CHUNK_SIZE)

create_chunks(text, CHUNK_SIZE) ==
    IF text = <<>> THEN <<>>
    ELSE CreateChunksLoop(split_dot(text), <<>>, <<>>, CHUNK_SIZE)

----------------------------------------------------------------------------
(* The calls of the two chunkers on one text. *)

IdleChunker ==
    [pc |-> "idle", text |-> <<>>, max_chunk_size |-> 0, overlap |-> 0,
     sentences |-> <<>>, current_chunk |-> <<>>, chunks |-> <<>>,
     create_pc |-> "idle", created |-> <<>>]

(* The maximum chunk sizes and the overlaps of the calls. *)
MaxSizes == {2, 4}
Overlaps == {0, 10}

----------------------------------------------------------------------------
(* The requests. *)

IdleUpload ==
    [pc |-> "idle", chunks |-> <<>>, vectors |-> <<>>, chunk_ids |-> <<>>,
     status |-> "none", save_error |-> FALSE, process |-> 0]

IdleDelete ==
    [pc |-> "idle", removed |-> FALSE, status |-> "none", save_error |-> FALSE]

NoRequest ==
    [text |-> <<>>, k |-> 1, similarity_threshold |-> 0, document_ids |-> NoFilter]

NoVector == [nan |-> FALSE, v |-> <<>>]

IdleQuery ==
    [pc |-> "idle", request |-> NoRequest, query_vector |-> NoVector,
     results |-> <<>>]

(* QueryRequest: max_results is at least 1, similarity_threshold is between
   0.0 and 1.0, document_ids is optional. *)
Thresholds == {0, (7 * Unit * Unit) \div 10}
DocumentIdFilters == {NoFilter, Filter({})} \cup {Filter({d}) : d \in Docs}
QueryRequests ==
    [text : QueryTexts, k : 1..MaxK, similarity_threshold : Thresholds,
     document_ids : DocumentIdFilters]

(* The state of one VectorStore object. *)
Store(s) == [index |-> index[s], chunk_ids |-> chunk_ids[s]]

Init ==
    /\ index_file = NoIndexFile
    /\ metadata_file = NoMetadataFile
    /\ index = [s \in Stores |-> LoadOrCreateIndex(index_file, metadata_file).index]
    /\ chunk_ids = [s \in Stores |-> LoadOrCreateIndex(index_file, metadata_file).chunk_ids]
    /\ db_documents = {}
    /\ db_chunks = {}
    /\ upload = [d \in Docs |-> IdleUpload]
    /\ delete = [d \in Docs |-> IdleDelete]
    /\ query = IdleQuery
    /\ running = TRUE
    /\ restarts = 0
    /\ chunker = IdleChunker

(* The requests in flight when the process dies. *)
Killed ==
    /\ running' = FALSE
    /\ upload' = [d \in Docs |->
                    IF upload[d].pc = "embedding"
                    THEN [IdleUpload EXCEPT !.pc = "done", !.status = "killed",
                                            !.process = restarts]
                    ELSE upload[d]]
    /\ delete' = [d \in Docs |->
                    IF delete[d].pc = "removed"
                    THEN [delete[d] EXCEPT !.pc = "done", !.status = "killed"]
                    ELSE delete[d]]
    /\ query' = IdleQuery

(* The upload store's index and chunk_ids become ix and ids and _save_index
   runs, with the given outcome. *)
UpdateAndSave(ix, ids, outcome) ==
    LET sv == SaveIndex(ix, ids, index_file, metadata_file, outcome)
    IN /\ outcome = "killed" => restarts < MaxRestarts
       /\ index' = [index EXCEPT ![UploadStore] = ix]
       /\ chunk_ids' = [chunk_ids EXCEPT ![UploadStore] = ids]
       /\ index_file' = sv.index_file
       /\ metadata_file' = sv.metadata_file

(* upload_document up to the first await of add_document_chunks:
   process_document commits the document row and its n chunk rows, the handler
   reads the chunks back and calls add_document_chunks when there are any. *)
UploadDocument(d, n) ==
    /\ running
    /\ upload[d].pc = "idle"
    /\ d \notin db_documents
    /\ db_documents' = db_documents \cup {d}
    /\ db_chunks' = db_chunks \cup {<<d, i>> : i \in 1..n}
    /\ upload' = [upload EXCEPT ![d] =
                    IF n = 0
                    THEN [IdleUpload EXCEPT !.pc = "done", !.status = "success",
                                            !.process = restarts]
                    ELSE [IdleUpload EXCEPT !.pc = "embedding",
                                            !.chunks = [i \in 1..n |-> <<d, i>>]]]
    /\ UNCHANGED <<index, chunk_ids, index_file, metadata_file, delete, query,
                   running, restarts, chunker>>

(* db.commit() of add_document_chunks updates the rows of the batch; it raises
   when the database fails or a row of the batch is no longer there. *)
CommitRaises(ids, db, db_ok) == ~db_ok \/ ~(Range(ids) \subseteq db)

(* The upload request when add_document_chunks has ended, with the batch of
   vectors it had built. *)
UploadDone(vectors, status, save_error) ==
    [IdleUpload EXCEPT !.pc = "done", !.vectors = vectors, !.status = status,
                       !.save_error = save_error, !.process = restarts]

(* add_document_chunks from the return of one get_embedding call to the next
   await, or to the end of the call after the last chunk. *)
AddDocumentChunks(d, embedded, save, db_ok) ==
    LET u == upload[d]
        chunk == Head(u.chunks)
        embedding == get_embedding(ChunkEmbedding(chunk), embedded)
        vectors == Append(u.vectors, Normalize(embedding))
        ids == Append(u.chunk_ids, chunk)
        added == AddBatch(Store(UploadStore), vectors, ids)
    IN /\ running
       /\ u.pc = "embedding"
       /\ IF Tail(u.chunks) # <<>>
          THEN /\ upload' = [upload EXCEPT ![d] =
                               [u EXCEPT !.chunks = Tail(u.chunks),
                                         !.vectors = vectors, !.chunk_ids = ids]]
               /\ UNCHANGED <<index, chunk_ids, index_file, metadata_file,
                              delete, query, running>>
          ELSE IF added.raised
          THEN /\ index' = [index EXCEPT ![UploadStore] = added.index]
               /\ chunk_ids' = [chunk_ids EXCEPT ![UploadStore] = added.chunk_ids]
               /\ upload' = [upload EXCEPT ![d] = UploadDone(vectors, "error", FALSE)]
               /\ UNCHANGED <<index_file, metadata_file, delete, query, running>>
          ELSE /\ UpdateAndSave(added.index, added.chunk_ids, save)
               /\ IF save = "killed"
                  THEN Killed
                  ELSE /\ upload' = [upload EXCEPT ![d] =
                            UploadDone(vectors, IF CommitRaises(ids, db_chunks, db_ok)
                                       THEN "error" ELSE "success",
                                       save # "saved")]
                       /\ UNCHANGED <<delete, query, running>>
       /\ UNCHANGED <<db_documents, db_chunks, restarts, chunker>>

(* delete_document up to its second await: the document exists (or the request
   ends in 404 and changes nothing), then remove_document_chunks runs. *)
DeleteRemove(d, rebuild, save) ==
    LET r == RemoveDocumentChunks(Store(UploadStore), d, db_chunks, rebuild)
    IN /\ running
       /\ delete[d].pc = "idle"
       /\ d \in db_documents
       /\ IF r.raised
          THEN /\ index' = [index EXCEPT ![UploadStore] = r.index]
               /\ chunk_ids' = [chunk_ids EXCEPT ![UploadStore] = r.chunk_ids]
               /\ delete' = [delete EXCEPT ![d] =
                               [IdleDelete EXCEPT !.pc = "done", !.status = "error"]]
               /\ UNCHANGED <<index_file, metadata_file, upload, query, running>>
          ELSE IF ~r.saves
          THEN /\ delete' = [delete EXCEPT ![d] =
                               [IdleDelete EXCEPT !.pc = "removed", !.removed = TRUE]]
               /\ UNCHANGED <<index, chunk_ids, index_file, metadata_file,
                              upload, query, running>>
          ELSE /\ UpdateAndSave(r.index, r.chunk_ids, save)
               /\ IF save = "killed"
                  THEN Killed
                  ELSE /\ delete' = [delete EXCEPT ![d] =
                               [IdleDelete EXCEPT !.pc = "removed", !.removed = TRUE,
                                                  !.save_error = (save # "saved")]]
                       /\ UNCHANGED <<upload, query, running>>
       /\ UNCHANGED <<db_documents, db_chunks, restarts, chunker>>

(* delete_document from the return of remove_document_chunks:
   DocumentProcessor.delete_document deletes the chunk rows and the document
   row, or rolls back and returns False, which ends the request in 500. *)
DeleteDocument(d, deleted) ==
    /\ running
    /\ delete[d].pc = "removed"
    /\ IF deleted
       THEN /\ db_documents' = db_documents \ {d}
            /\ db_chunks' = {c \in db_chunks : document_id(c) # d}
            /\ delete' = [delete EXCEPT ![d] = [@ EXCEPT !.pc = "done", !.status = "success"]]
       ELSE /\ delete' = [delete EXCEPT ![d] = [@ EXCEPT !.pc = "done", !.status = "error"]]
            /\ UNCHANGED <<db_documents, db_chunks>>
    /\ UNCHANGED <<index, chunk_ids, index_file, metadata_file, upload, query,
                   running, restarts, chunker>>

(* query_documents up to the await of the query's embedding. *)
QueryDocuments(request) ==
    /\ running
    /\ query.pc # "embedding"
    /\ query' = [IdleQuery EXCEPT !.pc = "embedding", !.request = request]
    /\ UNCHANGED <<index, chunk_ids, index_file, metadata_file, db_documents,
                   db_chunks, upload, delete, running, restarts, chunker>>

(* search_similar_chunks from the return of the embedding call, on the store
   of the query engine. *)
Search(embedded) ==
    LET q == Normalize(get_embedding(query.request.text, embedded))
    IN /\ running
       /\ query.pc = "embedding"
       /\ query' = [query EXCEPT !.pc = "answered", !.query_vector = q,
                      !.results = SearchSimilarChunks(Store(QueryStore),
                                      query.request, q, db_chunks)]
       /\ UNCHANGED <<index, chunk_ids, index_file, metadata_file, db_documents,
                      db_chunks, upload, delete, running, restarts, chunker>>

(* The process is killed while no _save_index is running. *)
Kill ==
    /\ running
    /\ restarts < MaxRestarts
    /\ Killed
    /\ UNCHANGED <<index, chunk_ids, index_file, metadata_file, db_documents,
                   db_chunks, restarts, chunker>>

(* The process starts: the module-level initialisation of api/endpoints.py
   builds QueryEngine(), which builds its own VectorStore(), and a second
   VectorStore(); each loads the image. *)
Start ==
    /\ ~running
    /\ running' = TRUE
    /\ restarts' = restarts + 1
    /\ index' = [s \in Stores |-> LoadOrCreateIndex(index_file, metadata_file).index]
    /\ chunk_ids' = [s \in Stores |-> LoadOrCreateIndex(index_file, metadata_file).chunk_ids]
    /\ UNCHANGED <<index_file, metadata_file, db_documents, db_chunks, upload,
                   delete, query, chunker>>

(* Uploads, deletes, and the process dying and starting. *)
NextStore ==
    \/ \E d \in Docs, n \in 0..MaxChunks : UploadDocument(d, n)
    \/ \E d \in Docs, e \in ChunkEmbedOutcomes, s \in SaveOutcomes, ok \in BOOLEAN :
           AddDocumentChunks(d, e, s, ok)
    \/ \E d \in Docs, r \in RebuildOutcomes, s \in SaveOutcomes : DeleteRemove(d, r, s)
    \/ \E d \in Docs, ok \in BOOLEAN : DeleteDocument(d, ok)
    \/ Kill
    \/ Start

(* Uploads, deletes and queries of a service whose libraries, files and
   database never fail, and whose process may die, also inside _save_index. *)
Next ==
    \/ \E d \in Docs, n \in 1..MaxChunks : UploadDocument(d, n)
    \/ \E d \in Docs, s \in {"saved", "killed"} : AddDocumentChunks(d, "ok", s, TRUE)
    \/ \E d \in Docs, s \in {"saved", "killed"} : DeleteRemove(d, "ok", s)
    \/ \E d \in Docs : DeleteDocument(d, TRUE)
    \/ \E request \in QueryRequests : QueryDocuments(request)
    \/ \E e \in EmbedOutcomes : Search(e)
    \/ Kill
    \/ Start

(* A process that starts on an image it finds on disk. *)

MaxRows == 3

(* The vectors add_document_chunks can have stored: the normalised embedding
   of a chunk, or the nan vector of a chunk whose embedding call raised. *)
StoredVectors ==
    {Normalize(get_embedding(a, o)) : a \in QueryTexts, o \in {"ok", "raises"}}

(* The rows of an image this program has saved: a document and a vector at
   each position, the chunks of each document in one block. *)
SavedRows ==
    {rows \in UNION {[1..n -> Docs \X StoredVectors] : n \in 0..MaxRows} :
        Contiguous([i \in DOMAIN rows |-> <<rows[i][1], i>>])}

SavedImages ==
    {ImageOf(IndexAdd(IndexFlatIP(dimension), [i \in DOMAIN rows |-> rows[i][2]]),
             [i \in DOMAIN rows |-> <<rows[i][1], i>>]) : rows \in SavedRows}

(* The images of a deployment whose VectorStore.dimension was another number:
   an index of that dimension with no vector or with one. *)
OtherDimension == dimension - 1
OtherDimensionImages ==
    {ImageOf(IndexFlatIP(OtherDimension), <<>>),
     ImageOf(IndexAdd(IndexFlatIP(OtherDimension),
                      <<[nan |-> FALSE, v |-> [i \in 1..OtherDimension |-> Unit]]>>),
             <<<<"D1", 1>>>>)}

DiskImages == SavedImages \cup OtherDimensionImages

(* The chunk rows the database holds beside an image: all of its chunks or all
   but one. *)
ChunkTables(image) ==
    LET ids == Range(pickle_load(image.metadata_file.data))
    IN {ids} \cup {ids \ {c} : c \in ids}

InitOn(images) ==
    /\ \E image \in images :
          /\ index_file = image.index_file
          /\ metadata_file = image.metadata_file
          /\ db_chunks \in ChunkTables(image)
    /\ db_documents = {document_id(c) : c \in db_chunks}
    /\ index = [s \in Stores |-> IndexFlatIP(dimension)]
    /\ chunk_ids = [s \in Stores |-> <<>>]
    /\ upload = [d \in Docs |-> IdleUpload]
    /\ delete = [d \in Docs |-> IdleDelete]
    /\ query = IdleQuery
    /\ running = FALSE
    /\ restarts = 0
    /\ chunker = IdleChunker

(* The disk holds an image this program has saved. *)
InitLoad == InitOn(SavedImages)

(* The disk holds an image this program or a deployment of another dimension
   has saved. *)
InitLoadAny == InitOn(DiskImages)

(* The first query sent to it: the thresholds 0.0, 0.6 (the score of one stored
   vector with one query) and 0.7. *)
ProbeThresholds == {0, (6 * Unit * Unit) \div 10} \cup Thresholds
ProbeRequests ==
    [text : QueryTexts, k : 1..MaxK, similarity_threshold : ProbeThresholds,
     document_ids : DocumentIdFilters]

NextLoad ==
    \/ Start
    \/ \E request \in ProbeRequests : query.pc = "idle" /\ QueryDocuments(request)
    \/ \E e \in EmbedOutcomes : Search(e)

(* Uploads, deletes and a first query of a service whose embedding calls may
   fail, whose saves succeed, and whose process may die between two requests'
   steps and start again. *)
FirstRequests ==
    [text : {<<1, 0>>}, k : {1}, similarity_threshold : {0},
     document_ids : {NoFilter}]

NextEmbed ==
    \/ \E d \in Docs, n \in 1..MaxChunks : UploadDocument(d, n)
    \/ \E d \in Docs, e \in {"ok", "raises"} : AddDocumentChunks(d, e, "saved", TRUE)
    \/ \E d \in Docs : DeleteRemove(d, "ok", "saved")
    \/ \E d \in Docs : DeleteDocument(d, TRUE)
    \/ \E request \in FirstRequests : query.pc = "idle" /\ QueryDocuments(request)
    \/ \E e \in EmbedOutcomes : Search(e)
    \/ Kill
    \/ Start

(* A VectorStore whose add_document_chunks and remove_document_chunks are
   called one after the other by any caller, with the chunk rows of a document
   the table holds; every embedding call answers and every save succeeds. *)

MaxEntries == 5

(* The arguments of add_document_chunks: the first rows of a document, in
   the order of chunk_index, or no row. *)
ChunkLists == {[i \in 1..n |-> <<d, i>>] : d \in Docs, n \in 0..MaxChunks}

InitCalls ==
    /\ index_file = NoIndexFile
    /\ metadata_file = NoMetadataFile
    /\ index = [s \in Stores |-> LoadOrCreateIndex(index_file, metadata_file).index]
    /\ chunk_ids = [s \in Stores |-> LoadOrCreateIndex(index_file, metadata_file).chunk_ids]
    /\ db_documents = Docs
    /\ db_chunks = ChunkIds
    /\ upload = [d \in Docs |-> IdleUpload]
    /\ delete = [d \in Docs |-> IdleDelete]
    /\ query = IdleQuery
    /\ running = TRUE
    /\ restarts = 0
    /\ chunker = IdleChunker

(* One whole add_document_chunks(chunks, db) call. *)
AddChunks(chunks) ==
    LET vectors == [i \in DOMAIN chunks |->
                       Normalize(get_embedding(ChunkEmbedding(chunks[i]), "ok"))]
        added == AddBatch(Store(UploadStore), vectors, chunks)
    IN /\ running
       /\ Len(chunk_ids[UploadStore]) + Len(chunks) <= MaxEntries
       /\ ~added.raised
       /\ IF vectors # <<>>
          THEN UpdateAndSave(added.index, added.chunk_ids, "saved")
          ELSE UNCHANGED <<index, chunk_ids, index_file, metadata_file>>
       /\ UNCHANGED <<db_documents, db_chunks, upload, delete, query, running,
                      restarts, chunker>>

(* One whole remove_document_chunks(document_id, db) call. *)
RemoveChunks(d) ==
    LET r == RemoveDocumentChunks(Store(UploadStore), d, db_chunks, "ok")
    IN /\ running
       /\ r.saves
       /\ UpdateAndSave(r.index, r.chunk_ids, "saved")
       /\ UNCHANGED <<db_documents, db_chunks, upload, delete, query, running,
                      restarts, chunker>>

NextCalls ==
    \/ \E chunks \in ChunkLists : AddChunks(chunks)
    \/ \E d \in Docs : RemoveChunks(d)

SpecCalls == InitCalls /\ [][NextCalls]_vars

(* chunk_text_by_sentences(text, max_chunk_size, overlap) and
   _create_chunks(text), with settings.CHUNK_SIZE = max_chunk_size, called on
   one text. *)

ServiceVars ==
    <<index, chunk_ids, index_file, metadata_file, db_documents, db_chunks,
      upload, delete, query, running, restarts>>

InitChunker ==
    /\ index_file = NoIndexFile
    /\ metadata_file = NoMetadataFile
    /\ index = [s \in Stores |-> IndexFlatIP(dimension)]
    /\ chunk_ids = [s \in Stores |-> <<>>]
    /\ db_documents = {}
    /\ db_chunks = {}
    /\ upload = [d \in Docs |-> IdleUpload]
    /\ delete = [d \in Docs |-> IdleDelete]
    /\ query = IdleQuery
    /\ running = TRUE
    /\ restarts = 0
    /\ \E text \in Texts, max_chunk_size \in MaxSizes, overlap \in Overlaps :
           chunker = [IdleChunker EXCEPT !.pc = "called", !.create_pc = "called",
                                         !.text = text,
                                         !.max_chunk_size = max_chunk_size,
                                         !.overlap = overlap]

(* chunk_text_by_sentences up to its loop. *)
ChunkTextBySentences ==
    /\ chunker.pc = "called"
    /\ chunker' = IF chunker.text = <<>>
                  THEN [chunker EXCEPT !.pc = "returned"]
                  ELSE [chunker EXCEPT !.pc = "loop",
                                       !.sentences = Sentences(chunker.text)]
    /\ UNCHANGED ServiceVars

(* One pass of the loop of chunk_text_by_sentences. *)
ChunkSentence ==
    /\ chunker.pc = "loop"
    /\ chunker.sentences # <<>>
    /\ LET r == AddSentence(chunker.current_chunk, Head(chunker.sentences),
                            chunker.max_chunk_size, chunker.overlap)
       IN chunker' = [chunker EXCEPT !.sentences = Tail(chunker.sentences),
                                     !.chunks = @ \o r.flushed,
                                     !.current_chunk = r.current_chunk]
    /\ UNCHANGED ServiceVars

(* chunk_text_by_sentences after its loop. *)
ChunkReturn ==
    /\ chunker.pc = "loop"
    /\ chunker.sentences = <<>>
    /\ chunker' = [chunker EXCEPT !.pc = "returned",
                                  !.chunks = AppendLastChunk(@, chunker.current_chunk)]
    /\ UNCHANGED ServiceVars

(* One whole call of _create_chunks. *)
CreateChunks ==
    /\ chunker.create_pc = "called"
    /\ chunker' = [chunker EXCEPT !.create_pc = "returned",
                                  !.created = create_chunks(chunker.text,
                                                            chunker.max_chunk_size)]
    /\ UNCHANGED ServiceVars

NextChunker ==
    \/ ChunkTextBySentences
    \/ ChunkSentence
    \/ ChunkReturn
    \/ CreateChunks

SpecChunker == InitChunker /\ [][NextChunker]_vars

SpecStore == Init /\ [][NextStore]_vars

SpecEmbed == Init /\ [][NextEmbed]_vars

SpecLoad == InitLoad /\ [][NextLoad]_vars

SpecLoadAny == InitLoadAny /\ [][NextLoad]_vars

Spec == Init /\ [][Next]_vars

----------------------------------------------------------------------------
(* What the claims speak of. *)

(* The chunk ids of document d in a list of chunk ids. *)
ChunksOf(d, ids) == {c \in Range(ids) : document_id(c) = d}

(* The step in which the add_document_chunks call of d ends in this process. *)
AddEnds(d) ==
    upload[d].pc = "embedding" /\ upload'[d].pc = "done" /\ upload'[d].status # "killed"

(* The step in which search_similar_chunks reads the index. *)
SearchReads == query.pc = "embedding" /\ query'.pc = "answered"

(* The step in which remove_document_chunks(d) returns to delete_document. *)
RemoveReturns(d) == delete[d].pc = "idle" /\ delete'[d].pc = "removed"

(* The step in which remove_document_chunks(d) raises. *)
RemoveRaises(d) ==
    delete[d].pc = "idle" /\ delete'[d].pc = "done" /\ delete'[d].status = "error"

(* The two files on disk. *)
DiskImage == Image(index_file, metadata_file)

(* C1: in every state of a running process, each VectorStore holds as many
   vectors as chunk ids, and the vector at position i is the normalised
   embedding of the chunk whose id is at position i. *)
C1_IndexMatchesChunkIds ==
    running =>
        \A s \in Stores :
            /\ ntotal(index[s]) = Len(chunk_ids[s])
            /\ \A i \in DOMAIN chunk_ids[s] :
                   index[s].xb[i] = Normalize(ChunkEmbedding(chunk_ids[s][i]))

(* C2: once the upload of d has returned success in the running process, and
   d has not been deleted, the store a query searches holds the ids of d's
   chunks. *)
C2_QuerySearchesUploadedChunks ==
    \A d \in Docs :
        (/\ running
         /\ upload[d].pc = "done"
         /\ upload[d].status = "success"
         /\ upload[d].process = restarts
         /\ delete[d].pc = "idle")
        => ChunkIdsToRemove(d, db_chunks) \subseteq Range(chunk_ids[QueryStore])

(* C3: an add_document_chunks call whose batch holds a vector of a length
   other than the index's dimension ends in an error and leaves the index and
   chunk_ids of every store as they were. *)
C3_AddAllOrNothing ==
    [][\A d \in Docs :
          (/\ AddEnds(d)
           /\ \E i \in DOMAIN upload'[d].vectors :
                  Len(upload'[d].vectors[i].v) # index[UploadStore].d)
          => /\ upload'[d].status = "error"
             /\ index' = index
             /\ chunk_ids' = chunk_ids]_vars

(* C3, the case: an add of two chunks has ended whose first vector has the
   index's dimension and whose second has not, while the index holds vectors. *)
C3_Witness ==
    \E d \in Docs :
        /\ upload[d].pc = "done"
        /\ upload[d].status = "error"
        /\ Len(upload[d].vectors) >= 2
        /\ Len(upload[d].vectors[1].v) = dimension
        /\ Len(upload[d].vectors[2].v) # dimension
        /\ ntotal(index[UploadStore]) > 0
        /\ running

(* C4: a search that runs after remove_document_chunks(d) has returned
   returns no chunk of d. *)
C4_NoRemovedChunkReturned ==
    [][\A d \in Docs :
          (delete[d].removed /\ SearchReads)
          => \A i \in DOMAIN query'.results :
                 document_id(query'.results[i].chunk) # d]_vars

(* The positions of the vectors, and of the chunk ids, of store s that are
   not document d's; a vector with no chunk id at its position is not d's. *)
VectorsNotOf(d, s) ==
    {i \in 1..ntotal(index[s]) :
        i > Len(chunk_ids[s]) \/ document_id(chunk_ids[s][i]) # d}
ChunkIdsNotOf(d, s) ==
    {i \in DOMAIN chunk_ids[s] : document_id(chunk_ids[s][i]) # d}

(* C5: when remove_document_chunks(d) returns, the index and chunk_ids hold
   the entries that are not d's, in their order, and nothing else has gone. *)
C5_RemoveOnlyMatching ==
    [][\A d \in Docs :
          RemoveReturns(d)
          => /\ index'[UploadStore].xb =
                    AtPositions(index[UploadStore].xb, VectorsNotOf(d, UploadStore))
             /\ chunk_ids'[UploadStore] =
                    AtPositions(chunk_ids[UploadStore], ChunkIdsNotOf(d, UploadStore))]_vars

(* C6: when remove_document_chunks raises, the index and chunk_ids are as
   they were before the call. *)
C6_FailedRemoveChangesNothing ==
    [][\A d \in Docs :
          RemoveRaises(d) => (index' = index /\ chunk_ids' = chunk_ids)]_vars

(* C7: when a search reads the index, the store it reads holds as many
   vectors as chunk ids. *)
C7_SearchReadsMatchingStore ==
    [][SearchReads => ntotal(index[QueryStore]) = Len(chunk_ids[QueryStore])]_vars

(* The add_document_chunks call of d ends while the call of another document
   is waiting for an embedding. *)
AddEndsBesideAnother(d) ==
    AddEnds(d) /\ \E e \in Docs \ {d} : upload[e].pc = "embedding"

(* C8: of two add_document_chunks calls that run at the same time, the one
   that ends in an error leaves none of its entries in the index, the one that
   ends in success has appended its chunk ids as one block in the batch's
   order, and the ids of each batch stay one block. *)
C8_ConcurrentAddsAtomic ==
    [][\A d \in Docs :
          AddEndsBesideAnother(d)
          => /\ upload'[d].status = "error"
                    => ChunksOf(d, chunk_ids'[UploadStore]) = {}
             /\ upload'[d].status = "success"
                    => /\ ntotal(index'[UploadStore]) =
                              ntotal(index[UploadStore]) + Len(upload'[d].vectors)
                       /\ chunk_ids'[UploadStore] = chunk_ids[UploadStore] \o
                              [i \in DOMAIN upload'[d].vectors |-> <<d, i>>]
             /\ Contiguous(chunk_ids'[UploadStore])]_vars

(* C9: a step in which the process dies leaves on disk the image that was
   there before the step or the whole image of the index and chunk_ids that
   were being saved. *)
C9_CrashKeepsImageWhole ==
    [][(running /\ ~running')
       => DiskImage' \in {DiskImage,
                          ImageOf(index'[UploadStore], chunk_ids'[UploadStore])}]_vars

(* C10: a request in which _save_index failed does not end as a success. *)
C10_SaveFailureReported ==
    /\ \A d \in Docs :
           (upload[d].pc = "done" /\ upload[d].save_error)
           => upload[d].status # "success"
    /\ \A d \in Docs :
           (delete[d].pc = "done" /\ delete[d].save_error)
           => delete[d].status # "success"

(* The step in which the process starts and each VectorStore loads the image. *)
Starts == ~running /\ running'

(* C11: a start on an image whose index file holds another number of vectors
   than its metadata file holds chunk ids does not end with a VectorStore that
   serves with index.ntotal # len(chunk_ids). *)
C11_LoadRejectsMismatchedImage ==
    [][(/\ Starts
        /\ index_file.exists /\ metadata_file.exists
        /\ index_file.data.ntotal # metadata_file.data.length)
       => \A s \in Stores : ntotal(index'[s]) = Len(chunk_ids'[s])]_vars

(* C12: with exactly one of the two files on disk the process does not start
   serving. *)
C12_LoneArtifactIsFatal ==
    [][(~running /\ index_file.exists # metadata_file.exists) => ~running']_vars

(* C13: after a start, the index of each VectorStore has the dimension
   VectorStore.dimension, whatever the dimension of the image on disk. *)
C13_LoadRejectsOtherDimension ==
    [][Starts => \A s \in Stores : index'[s].d = dimension]_vars

(* The step in which a _save_index call of the running process writes both
   files. *)
SaveSucceeds ==
    /\ running /\ running'
    /\ index_file' # index_file \/ metadata_file' # metadata_file
    /\ \A d \in Docs : ~upload'[d].save_error /\ ~delete'[d].save_error

(* What a new VectorStore() would load from the files as they are after the
   step. *)
FreshStore == LoadOrCreateIndex(index_file', metadata_file')

(* The probes of the round trip: one query with the largest k, threshold 0.0
   and no filter, and one with k = 1, threshold 0.6 and the filter of one
   document. *)
RoundTripProbes ==
    {[text |-> <<3, 4>>, k |-> MaxK, similarity_threshold |-> 0,
      document_ids |-> NoFilter],
     [text |-> <<1, 0>>, k |-> 1,
      similarity_threshold |-> (6 * Unit * Unit) \div 10,
      document_ids |-> Filter({"D1"})]}

(* C14: after a _save_index that succeeded, a new VectorStore that loads the
   image holds the dimension, the vectors and the chunk ids of the saving
   store, in their order, and answers the probes as the saving store does. *)
C14_SaveLoadRoundTrip ==
    [][SaveSucceeds
       => \A fresh \in {FreshStore},
             saved \in {[index |-> index'[UploadStore],
                         chunk_ids |-> chunk_ids'[UploadStore]]} :
             /\ fresh.index.d = saved.index.d
             /\ fresh.index.xb = saved.index.xb
             /\ fresh.chunk_ids = saved.chunk_ids
             /\ \A req \in RoundTripProbes :
                    SearchSimilarChunks(fresh, req, Normalize(req.text), db_chunks')
                    = SearchSimilarChunks(saved, req, Normalize(req.text), db_chunks')]_vars

(* C14, the case: the process has started again on an image of two or more
   vectors that a save had written whole, and the query engine's store holds
   that image. *)
C14_Witness ==
    /\ running
    /\ restarts >= 1
    /\ ntotal(index[QueryStore]) >= 2
    /\ ImageOf(index[QueryStore], chunk_ids[QueryStore]) = DiskImage
    /\ Store(QueryStore) = Store(UploadStore)

(* C15: an add_document_chunks call whose batch holds the embedding of norm
   zero of some chunk (its normalised vector is nan) ends in an error and
   leaves the index and chunk_ids of every store as they were. *)
C15_ZeroNormRejected ==
    [][\A d \in Docs :
          (/\ AddEnds(d)
           /\ \E i \in DOMAIN upload'[d].vectors : upload'[d].vectors[i].nan)
          => /\ upload'[d].status = "error"
             /\ index' = index
             /\ chunk_ids' = chunk_ids]_vars

(* C16: a step of add_document_chunks in which the embedding call raised ends
   the upload in an error, and a search whose embedding call raised does not
   end as an answered query computed from a vector of zeros. *)
C16_EmbeddingFailurePropagates ==
    [][/\ \A d \in Docs, s \in SaveOutcomes, ok \in BOOLEAN :
              AddDocumentChunks(d, "raises", s, ok)
              => (upload'[d].pc = "done" /\ upload'[d].status = "error")
       /\ Search("raises") => query'.pc # "answered"]_vars

(* The state in which search_similar_chunks has returned to the query. *)
Answered == running /\ query.pc = "answered"

(* The candidates the search of the answered query got from index.search, and
   whether the search raised before its loop. *)
Candidates ==
    IndexSearch(index[QueryStore], query.query_vector, query.request.k * 2)
SearchRaised == SearchRaises(index[QueryStore], query.query_vector)

(* Position i of the searched store passes the checks of the answered query:
   its score is a number not below the threshold, its chunk row exists and the
   filter, when there is one, names its document. *)
Passes(i) ==
    /\ ~ScoreIsNan(index[QueryStore], query.query_vector, i)
    /\ Score(index[QueryStore], query.query_vector, i)
           >= query.request.similarity_threshold
    /\ i <= Len(chunk_ids[QueryStore])
    /\ chunk_ids[QueryStore][i] \in db_chunks
    /\ query.request.document_ids.given
           => document_id(chunk_ids[QueryStore][i]) \in query.request.document_ids.ids

(* C17: search_similar_chunks returns at most k results. *)
C17_AtMostK ==
    Answered => Len(query.results) <= query.request.k

(* C17, the case: more than k stored vectors pass every check of the query and
   the search has returned exactly k results. *)
C17_Witness ==
    /\ Answered
    /\ ~SearchRaised
    /\ Cardinality({i \in 1..ntotal(index[QueryStore]) : Passes(i)})
           > query.request.k
    /\ Len(query.results) = query.request.k

(* C18 as stated: of two consecutive results the earlier has the strictly
   greater score. *)
C18_StrictlyDescending ==
    Answered =>
        \A i \in 1..(Len(query.results) - 1) :
            query.results[i].score > query.results[i + 1].score

(* C18 as amended: of two consecutive results the earlier has a score greater
   than or equal to the later one's. *)
C18_Descending ==
    Answered =>
        \A i \in 1..(Len(query.results) - 1) :
            query.results[i].score >= query.results[i + 1].score

(* C18, the case: the search has returned two results of equal score while a
   third stored vector passes every check with a lower score. *)
C18_Witness ==
    /\ Answered
    /\ ~SearchRaised
    /\ Len(query.results) = 2
    /\ query.results[1].score = query.results[2].score
    /\ \E i \in 1..ntotal(index[QueryStore]) :
           /\ Passes(i)
           /\ Score(index[QueryStore], query.query_vector, i) < query.results[2].score

(* C19: every result has a score not below the threshold, and when the search
   has returned fewer than k results, every candidate whose score equals the
   threshold, whose chunk row exists and which the filter does not exclude is
   among the results. *)
C19_ThresholdInclusive ==
    Answered =>
        /\ \A i \in DOMAIN query.results :
               query.results[i].score >= query.request.similarity_threshold
        /\ (~SearchRaised /\ Len(query.results) < query.request.k)
               => \A j \in DOMAIN Candidates :
                      (/\ Score(index[QueryStore], query.query_vector, Candidates[j])
                              = query.request.similarity_threshold
                       /\ Candidates[j] <= Len(chunk_ids[QueryStore])
                       /\ Resolves(chunk_ids[QueryStore][Candidates[j]], db_chunks)
                       /\ ~ExcludedByFilter(query.request.document_ids,
                                            chunk_ids[QueryStore][Candidates[j]]))
                      => \E r \in DOMAIN query.results :
                             query.results[r].chunk = chunk_ids[QueryStore][Candidates[j]]

(* C19, the case: with a threshold above 0.0 the search has returned a result
   whose score equals the threshold. *)
C19_Witness ==
    /\ Answered
    /\ query.request.similarity_threshold > 0
    /\ \E r \in DOMAIN query.results :
           query.results[r].score = query.request.similarity_threshold

(* C20: the chunk row of every result exists; when the request gives a filter,
   the document of every result is in it; and when the search has returned
   fewer than k results, every candidate that passes the checks is among the
   results although another candidate's row is missing. *)
C20_ResultsResolveAndInScope ==
    Answered =>
        /\ \A r \in DOMAIN query.results :
               /\ query.results[r].chunk \in db_chunks
               /\ query.request.document_ids.given
                      => document_id(query.results[r].chunk)
                             \in query.request.document_ids.ids
        /\ (~SearchRaised /\ Len(query.results) < query.request.k)
               => \A j \in DOMAIN Candidates :
                      Passes(Candidates[j])
                      => \E r \in DOMAIN query.results :
                             query.results[r].chunk = chunk_ids[QueryStore][Candidates[j]]

(* The loop of the answered query's search ended in an exception. *)
LoopRaised ==
    CollectResults(Store(QueryStore), query.request, query.query_vector,
                   db_chunks, Candidates, <<>>).raised

(* No stored vector of the searched store has a score at or above the
   threshold of the answered query. *)
NoneClearsThreshold ==
    \A i \in 1..ntotal(index[QueryStore]) :
        \/ ScoreIsNan(index[QueryStore], query.query_vector, i)
        \/ Score(index[QueryStore], query.query_vector, i)
               < query.request.similarity_threshold

(* C21: a search in which no stored vector scores at or above the threshold,
   the empty index included, returns the empty sequence from its `return
   results`, with no exception raised on the way. *)
C21_NoneClearsThresholdIsEmpty ==
    (Answered /\ ~SearchRaised /\ NoneClearsThreshold)
    => (query.results = <<>> /\ ~LoopRaised)

(* C21, the case: the index holds vectors, each with a score below a threshold
   above 0.0, and the query is answered with no result. *)
C21_Witness ==
    /\ Answered
    /\ ~SearchRaised
    /\ ntotal(index[QueryStore]) >= 2
    /\ ~query.query_vector.nan
    /\ \A i \in 1..ntotal(index[QueryStore]) :
           ~ScoreIsNan(index[QueryStore], query.query_vector, i)
    /\ query.request.similarity_threshold > 0
    /\ NoneClearsThreshold
    /\ query.results = <<>>

(* C22: a search whose query vector has another dimension than the index does
   not end as an answered query. *)
C22_OtherDimensionQueryFails ==
    ~(Answered /\ SearchRaised)

(* The chunks of d were added by an upload that ended in success, and d has
   not been deleted since. *)
Added(d) ==
    /\ upload[d].pc = "done"
    /\ upload[d].status = "success"
    /\ delete[d].pc = "idle"

(* C23: a search with threshold 0.0 and no filter whose query vector equals
   the vector added for chunk c, while the row of c exists, has c as its first
   result, with the score 1.0. *)
C23_SelfSimilarity ==
    [][\A d \in Docs :
          (/\ SearchReads
           /\ Added(d)
           /\ query.request.similarity_threshold = 0
           /\ ~query.request.document_ids.given)
          => \A c \in ChunkIdsToRemove(d, db_chunks) :
                 query'.query_vector = Normalize(ChunkEmbedding(c))
                 => /\ query'.results # <<>>
                    /\ query'.results[1].chunk = c
                    /\ query'.results[1].score = Unit * Unit]_vars

(* What remove_document_chunks(d) makes of the upload store as it is after the
   step, when it runs next and its rebuild runs through. *)
RemovedNext(d) ==
    RemoveDocumentChunks([index |-> index'[UploadStore],
                          chunk_ids |-> chunk_ids'[UploadStore]],
                         d, db_chunks', "ok")

(* C24: when the add_document_chunks call of d has ended in success, a
   remove_document_chunks(d) that runs next returns, and the index and
   chunk_ids hold after it what they held before the add: the same numbers of
   entries and the same entries in the same order. *)
C24_AddThenRemoveRestores ==
    [][\A d \in Docs :
          (AddEnds(d) /\ upload'[d].status = "success")
          => \A r \in {RemovedNext(d)} :
                 /\ ~r.raised
                 /\ ntotal(r.index) = ntotal(index[UploadStore])
                 /\ Len(r.chunk_ids) = Len(chunk_ids[UploadStore])
                 /\ r.index.xb = index[UploadStore].xb
                 /\ r.chunk_ids = chunk_ids[UploadStore]]_vars

(* C25: the chunk_ids of a VectorStore hold no id twice. *)
C25_NoDuplicateChunkIds ==
    \A s \in Stores :
        \A i, j \in DOMAIN chunk_ids[s] :
            chunk_ids[s][i] = chunk_ids[s][j] => i = j

(* Both chunkers have returned. *)
Returned == chunker.pc = "returned" /\ chunker.create_pc = "returned"

(* The trimmed non-empty sentence fragments of the text of the call. *)
Fragments == Sentences(chunker.text)

(* The least position at or after from at which sub lies in s, or 0. *)
Find(s, sub, from) ==
    LET P == {p \in from..(Len(s) - Len(sub) + 1) :
                 SubSeq(s, p, p + Len(sub) - 1) = sub}
    IN IF P = {} THEN 0 ELSE CHOOSE p \in P : \A r \in P : p <= r

Contains(s, sub) == Find(s, sub, 1) # 0

(* The fragments lie in the chunks in their order: each in a chunk, after the
   fragment before it or in a later chunk. *)
RECURSIVE InOrder(_, _, _, _)
InOrder(fragments, chunks, c, from) ==
    IF fragments = <<>> THEN TRUE
    ELSE IF c > Len(chunks) THEN FALSE
    ELSE LET p == Find(chunks[c], Head(fragments), from)
         IN IF p = 0 THEN InOrder(fragments, chunks, c + 1, 1)
            ELSE InOrder(Tail(fragments), chunks, c, p + Len(Head(fragments)))

(* C26: for the empty text each chunker returns no chunk, and for a text of
   one sentence fragment shorter than the maximum chunk size each returns one
   chunk, equal to that fragment. *)
C26_EmptyAndSingleSentence ==
    Returned =>
        /\ chunker.text = <<>>
               => (chunker.chunks = <<>> /\ chunker.created = <<>>)
        /\ (Len(Fragments) = 1 /\ Len(Fragments[1]) < chunker.max_chunk_size)
               => (chunker.chunks = Fragments /\ chunker.created = Fragments)

(* The pass of the loop of chunk_text_by_sentences that flushes a non-empty
   buffer. *)
Flushes ==
    /\ chunker.pc = "loop" /\ chunker'.pc = "loop"
    /\ chunker.current_chunk # <<>>
    /\ Len(chunker'.chunks) = Len(chunker.chunks) + 1

(* C27: after a flush of a buffer of more than floor(overlap/10) words the
   next buffer is the last floor(overlap/10) words of the flushed buffer, a
   space and the new fragment, and when floor(overlap/10) is 0 it is the new
   fragment alone. (A flushed buffer of at most floor(overlap/10) words may
   be carried over whole or not at all.) *)
C27_OverlapSeedsNextBuffer ==
    [][Flushes
       => LET words == split(chunker.current_chunk)
              n == chunker.overlap \div 10
              sentence == Head(chunker.sentences)
          IN /\ n = 0 => chunker'.current_chunk = sentence
             /\ (n > 0 /\ Len(words) > n)
                    => chunker'.current_chunk =
                           join(SubSeq(words, Len(words) - n + 1, Len(words)))
                               \o <<" ">> \o sentence
             /\ (n > 0 /\ Len(words) <= n)
                    => chunker'.current_chunk
                           \in {sentence, join(words) \o <<" ">> \o sentence}]_vars

(* C28: for a non-empty text, the sentence fragments of the text lie in the
   chunks each chunker returns, in their order. *)
C28_NoSentenceDropped ==
    (Returned /\ chunker.text # <<>>)
    => /\ InOrder(Fragments, chunker.chunks, 1, 1)
       /\ InOrder(Fragments, chunker.created, 1, 1)

(* C28, the case: a text of two or more fragments for which each chunker has
   returned two or more chunks, the second chunk of chunk_text_by_sentences
   beginning with a word carried over from the first. *)
C28_Witness ==
    /\ Returned
    /\ Len(Fragments) >= 2
    /\ Len(chunker.chunks) >= 2
    /\ Len(chunker.created) >= 2
    /\ chunker.overlap >= 10
    /\ chunker.chunks[2] =
           LastWords(split(chunker.chunks[1]), 1)[1] \o <<" ">> \o Fragments[2]

(* The fragments longer than the maximum chunk size. *)
LongFragments ==
    {i \in DOMAIN Fragments : Len(Fragments[i]) > chunker.max_chunk_size}

(* The passes the two calls have yet to make, at most. *)
Remaining ==
    (IF chunker.pc = "called" THEN Len(chunker.text) + 2
     ELSE IF chunker.pc = "loop" THEN Len(chunker.sentences) + 1
     ELSE 0)
    + (IF chunker.create_pc = "called" THEN 1 ELSE 0)

(* C29: on a text with a fragment longer than the maximum chunk size each
   chunker runs to its return (a call that has not returned can take a step,
   and every step leaves fewer passes to make), and the fragment lies whole in
   one chunk of each. *)
C29_LongFragmentEmittedWhole ==
    /\ [](Returned
          => \A i \in LongFragments :
                 /\ \E c \in DOMAIN chunker.chunks :
                        Contains(chunker.chunks[c], Fragments[i])
                 /\ \E c \in DOMAIN chunker.created :
                        Contains(chunker.created[c], Fragments[i]))
    /\ []((LongFragments # {} /\ ~Returned) => ENABLED NextChunker)
    /\ [][LongFragments # {} => Remaining' < Remaining]_vars

(* C29, the case: a fragment longer than the maximum chunk size that follows
   another fragment is a chunk of chunk_text_by_sentences, and with a full
   stop after it a chunk of _create_chunks. *)
C29_Witness ==
    /\ Returned
    /\ \E i \in LongFragments :
           /\ i > 1
           /\ \E c \in DOMAIN chunker.chunks : chunker.chunks[c] = Fragments[i]
           /\ \E c \in DOMAIN chunker.created :
                  chunker.created[c] = Fragments[i] \o <<".">>

(* The 2*k stored vectors of the searched store that score highest with the
   query vector of the step's search, best first. *)
TopTwoK ==
    IF SearchRaises(index[QueryStore], query'.query_vector) THEN <<>>
    ELSE IndexSearch(index[QueryStore], query'.query_vector, 2 * query.request.k)

(* Position i passes the checks of the step's search: the threshold, the
   chunk row and the filter of the code. *)
Accepted(i) ==
    /\ ~BelowThreshold(Score(index[QueryStore], query'.query_vector, i),
                       query.request.similarity_threshold)
    /\ i <= Len(chunk_ids[QueryStore])
    /\ Resolves(chunk_ids[QueryStore][i], db_chunks)
    /\ ~ExcludedByFilter(query.request.document_ids, chunk_ids[QueryStore][i])

(* C30: on a store in which every vector has its chunk id, the results of a
   search are the first k of the 2*k highest-scoring stored vectors, in rank
   order, that pass the checks; no other stored vector is returned, whatever
   it would pass. *)
C30_FirstKOfTopTwoK ==
    [][(SearchReads /\ ntotal(index[QueryStore]) <= Len(chunk_ids[QueryStore]))
       => \A accepted \in {SelectSeq(TopTwoK, Accepted)} :
              query'.results =
                  [r \in 1..(IF Len(accepted) < query.request.k
                             THEN Len(accepted) ELSE query.request.k) |->
                      [chunk |-> chunk_ids[QueryStore][accepted[r]],
                       score |-> Score(index[QueryStore], query'.query_vector,
                                       accepted[r])]]]_vars

(* C30, the case: the search has returned fewer than k results, none of them
   the chunk of a stored vector that passes every check and scores lower than
   each of the 2*k highest-scoring. *)
C30_Witness ==
    /\ Answered
    /\ ~SearchRaised
    /\ Len(query.results) < query.request.k
    /\ \E i \in 1..ntotal(index[QueryStore]) :
           /\ Passes(i)
           /\ \A j \in DOMAIN Candidates :
                  Score(index[QueryStore], query.query_vector, i)
                      < Score(index[QueryStore], query.query_vector, Candidates[j])
           /\ \A r \in DOMAIN query.results :
                  query.results[r].chunk # chunk_ids[QueryStore][i]

(* C31: an add_document_chunks call that returns has appended the vectors and
   the ids of its batch to the index and to chunk_ids, in the order of the
   batch, after the entries that were there, which it has left as they were;
   a call with no chunk changes neither the index, nor chunk_ids, nor the two
   files. *)
C31_AddAppendsInOrder ==
    [][\A chunks \in ChunkLists :
          AddChunks(chunks)
          => /\ index'[UploadStore].xb = index[UploadStore].xb \o
                    [i \in DOMAIN chunks |-> Normalize(ChunkEmbedding(chunks[i]))]
             /\ chunk_ids'[UploadStore] = chunk_ids[UploadStore] \o chunks
             /\ chunks = <<>>
                    => UNCHANGED <<index, chunk_ids, index_file, metadata_file>>]_vars

(* C31, the case: the index holds the two chunks of one document followed by
   the two chunks of the other, each vector at the position of its id. *)
C31_Witness ==
    /\ Len(chunk_ids[UploadStore]) = 4
    /\ ntotal(index[UploadStore]) = 4
    /\ \E d \in Docs : \E e \in Docs \ {d} :
           chunk_ids[UploadStore] = <<<<d, 1>>, <<d, 2>>, <<e, 1>>, <<e, 2>>>>
    /\ \A i \in 1..4 :
           index[UploadStore].xb[i] =
               Normalize(ChunkEmbedding(chunk_ids[UploadStore][i]))

(* C32: an add_document_chunks call that raises, whatever the cause, the
   failure of db.commit() after the index update included, leaves the index
   and chunk_ids of the store as they were before it. *)
C32_FailedAddLeavesIndexUnchanged ==
    [][\A d \in Docs :
          (AddEnds(d) /\ upload'[d].status = "error")
          => /\ index'[UploadStore] = index[UploadStore]
             /\ chunk_ids'[UploadStore] = chunk_ids[UploadStore]]_vars

(* C33: when the add of an upload of d ends after a delete of d has run and
   succeeded while the upload was embedding d's chunks, both requests have
   finished and chunk_ids of the store holds no id of a chunk of d. *)
C33_NoOrphanAfterUploadAndDelete ==
    [][\A d \in Docs :
          (AddEnds(d) /\ delete[d].pc = "done" /\ delete[d].status = "success")
          => ChunksOf(d, chunk_ids'[UploadStore]) = {}]_vars

(* C34: when the delete request of a document whose upload has succeeded in
   this process ends in failure because the rows of the document could not be
   deleted, after a remove that saved what it did, the vectors of the document are still in the index: its ids are in
   chunk_ids exactly if its chunk rows are in the database. *)
C34_DeleteAtomic ==
    [][\A d \in Docs :
          (/\ delete[d].pc = "removed"
           /\ delete'[d].pc = "done"
           /\ delete'[d].status = "error"
           /\ ~delete[d].save_error
           /\ upload[d].pc = "done"
           /\ upload[d].status = "success"
           /\ upload[d].process = restarts)
          => (ChunksOf(d, chunk_ids'[UploadStore]) = {}
                 <=> ChunkIdsToRemove(d, db_chunks') = {})]_vars

(* C35: a search whose document_ids is the empty list returns what the same
   search without document_ids returns: chunks of any document, not nothing. *)
C35_EmptyFilterIsNoFilter ==
    [][(SearchReads /\ query.request.document_ids = Filter({}))
       => query'.results =
              SearchSimilarChunks(Store(QueryStore),
                  [query.request EXCEPT !.document_ids = NoFilter],
                  query'.query_vector, db_chunks)]_vars

(* C35, the case: a search with the empty list as document_ids has returned
   chunks of two documents. *)
C35_Witness ==
    /\ query.pc = "answered"
    /\ query.request.document_ids = Filter({})
    /\ \E i \in DOMAIN query.results : \E j \in DOMAIN query.results :
           document_id(query.results[i].chunk) # document_id(query.results[j].chunk)

====
